---- MODULE Spec2Model ----
(***************************************************************************)
(* RDocsHandler of src/src/r-docs-integration.ts: the two documentation    *)
(* lookups (describeRPackage, getRPackageDoc), their collaborator calls    *)
(* (execAsync) and the help-text parser (parseRDoc, addSectionToResult).   *)
(*                                                                         *)
(* A JavaScript string is a sequence of one-character strings, so that     *)
(* split, join, trim, includes, the two header patterns and the template   *)
(* literals are computed character by character.  A DocResult is a         *)
(* function whose domain is the set of fields that are present.            *)
(***************************************************************************)
EXTENDS Integers, Sequences, FiniteSets, TLC

\* ------------------------------------------------------------------------
\* Bounds of the model
\* ------------------------------------------------------------------------

\* number of sections in a generated help text
MaxSections == 3

\* number of invocations that may be in flight on one handler
NCalls == 2

\* ------------------------------------------------------------------------
\* Characters and JavaScript string primitives
\* ------------------------------------------------------------------------

UpperSeq ==
    <<"A","B","C","D","E","F","G","H","I","J","K","L","M","N","O","P","Q","R","S","T","U","V",
      "W","X","Y","Z">>

LowerSeq ==
    <<"a","b","c","d","e","f","g","h","i","j","k","l","m","n","o","p","q","r","s","t","u","v",
      "w","x","y","z">>

Upper == {UpperSeq[k] : k \in 1..Len(UpperSeq)}

Lower == {LowerSeq[k] : k \in 1..Len(LowerSeq)}

\* what String.prototype.trim strips (the subset that occurs in the model)
WhiteSpace == {" ", "\t", "\n", "\r"}

\* what the regular expression atom "." does not match
LineTerminators == {"\n", "\r"}

MinOf(S) == CHOOSE m \in S : \A n \in S : m <= n

MaxOf(S) == CHOOSE m \in S : \A n \in S : m >= n

\* s.slice(from - 1, to)
Slice(s, from, to) == IF from > to THEN <<>> ELSE SubSeq(s, from, to)

LowerOf(ch) ==
    IF ch \in Upper THEN LowerSeq[CHOOSE k \in 1..Len(UpperSeq) : UpperSeq[k] = ch] ELSE ch

RECURSIVE ToLowerCase(_)
ToLowerCase(s) == IF s = <<>> THEN <<>> ELSE <<LowerOf(Head(s))>> \o ToLowerCase(Tail(s))

Trim(s) ==
    LET keep == {k \in 1..Len(s) : s[k] \notin WhiteSpace}
    IN  IF keep = {} THEN <<>> ELSE Slice(s, MinOf(keep), MaxOf(keep))

Includes(s, pat) ==
    \E k \in 1..(Len(s) - Len(pat) + 1) : Slice(s, k, k + Len(pat) - 1) = pat

\* s.split('\n')
RECURSIVE Split(_)
Split(s) ==
    LET nl == {k \in 1..Len(s) : s[k] = "\n"}
    IN  IF nl = {} THEN <<s>>
        ELSE <<Slice(s, 1, MinOf(nl) - 1)>> \o Split(Slice(s, MinOf(nl) + 1, Len(s)))

\* parts.join('\n')
RECURSIVE Join(_)
Join(parts) ==
    IF parts = <<>> THEN <<>>
    ELSE IF Len(parts) = 1 THEN parts[1]
    ELSE parts[1] \o <<"\n">> \o Join(Tail(parts))

\* s.replace(/_/g, '')
RECURSIVE StripUnderscores(_)
StripUnderscores(s) ==
    IF s = <<>> THEN <<>>
    ELSE (IF Head(s) = "_" THEN <<>> ELSE <<Head(s)>>) \o StripUnderscores(Tail(s))

\* a string is truthy when it is not empty
Truthy(s) == s # <<>>

\* ------------------------------------------------------------------------
\* DocResult
\* ------------------------------------------------------------------------

EmptyResult == [f \in {} |-> <<>>]

Has(r, f) == f \in DOMAIN r

Put(r, f, v) == [g \in (DOMAIN r) \cup {f} |-> IF g = f THEN v ELSE r[g]]

\* if (result.usage), if (!result.usage)
TruthyField(r, f) == Has(r, f) /\ Truthy(r[f])

\* ------------------------------------------------------------------------
\* Literals of the source
\* ------------------------------------------------------------------------
RNotInstalledMsg ==
    <<"R"," ","i","s"," ","n","o","t"," ","i","n","s","t","a","l","l","e","d"," ","o","r"," ",
      "n","o","t"," ","i","n"," ","t","h","e"," ","P","A","T","H","."," ","P","l","e","a","s",
      "e"," ","i","n","s","t","a","l","l"," ","R"," ","a","n","d"," ","m","a","k","e"," ","s",
      "u","r","e"," ","i","t","'","s"," ","a","v","a","i","l","a","b","l","e"," ","i","n"," ",
      "y","o","u","r"," ","P","A","T","H",".">>

PkgMsgA ==
    <<"P","a","c","k","a","g","e"," ">>

PkgMsgB ==
    <<" ","i","s"," ","n","o","t"," ","i","n","s","t","a","l","l","e","d","."," ","T","r","y",
      " ","i","n","s","t","a","l","l","i","n","g"," ","i","t"," ","w","i","t","h"," ","'","i",
      "n","s","t","a","l","l",".","p","a","c","k","a","g","e","s","(","\"">>

PkgMsgC ==
    <<"\"",")","'"," ","i","n"," ","R",".">>

FailedToFetch ==
    <<"F","a","i","l","e","d"," ","t","o"," ","f","e","t","c","h"," ","R"," ","d","o","c","u",
      "m","e","n","t","a","t","i","o","n",":"," ">>

DocNotFoundMarker ==
    <<"D","o","c","u","m","e","n","t","a","t","i","o","n"," ","n","o","t"," ","f","o","u","n",
      "d">>

NotFoundFor ==
    <<"D","o","c","u","m","e","n","t","a","t","i","o","n"," ","n","o","t"," ","f","o","u","n",
      "d"," ","f","o","r"," ">>

PackageWord ==
    <<"p","a","c","k","a","g","e"," ">>

ColonColon ==
    <<":",":">>

OverviewHeading ==
    <<"#"," ","P","a","c","k","a","g","e"," ","O","v","e","r","v","i","e","w","\n","\n">>

ExportedHeading ==
    <<"\n","\n","#"," ","E","x","p","o","r","t","e","d"," ","F","u","n","c","t","i","o","n","s",
      "\n","\n">>

BlankLine ==
    <<"\n","\n">>

HeadingMark ==
    <<"#","#"," ">>

ArgumentsTitle ==
    <<"A","r","g","u","m","e","n","t","s">>

ReturnValueTitle ==
    <<"R","e","t","u","r","n"," ","V","a","l","u","e">>

DetailsTitle ==
    <<"D","e","t","a","i","l","s">>

TrueText ==
    <<"T","R","U","E">>

DescriptionName ==
    <<"d","e","s","c","r","i","p","t","i","o","n">>

UsageName ==
    <<"u","s","a","g","e">>

ArgumentsName ==
    <<"a","r","g","u","m","e","n","t","s">>

ValueName ==
    <<"v","a","l","u","e">>

DetailsName ==
    <<"d","e","t","a","i","l","s">>

ExamplesName ==
    <<"e","x","a","m","p","l","e","s">>

ReferencesName ==
    <<"r","e","f","e","r","e","n","c","e","s">>

SeeAlsoName ==
    <<"s","e","e","a","l","s","o">>

AuthorName ==
    <<"a","u","t","h","o","r">>

NoteName ==
    <<"n","o","t","e">>

\* ------------------------------------------------------------------------
\* parseRDoc and addSectionToResult
\* ------------------------------------------------------------------------

\* an optional string parameter: <<>> is undefined, <<s>> is the string s
Undefined == <<>>

Some(s) == <<s>>

\* symbol ? a : b
SymbolGiven(symbol) == symbol # Undefined /\ Truthy(symbol[1])

\* line.match(/^_[A-Za-z_]+:/): the index of the colon that ends the match,
\* 0 when the line does not match
EmphasisHeaderEnd(line) ==
    IF Len(line) < 3 \/ line[1] # "_" THEN 0
    ELSE LET stop == {k \in 2..Len(line) : line[k] \notin (Upper \cup Lower \cup {"_"})}
         IN  IF stop = {} THEN 0
             ELSE IF MinOf(stop) >= 3 /\ line[MinOf(stop)] = ":" THEN MinOf(stop) ELSE 0

\* line.match(/^[A-Z][a-z]+:/): the index of the colon, 0 when no match
PlainHeaderEnd(line) ==
    IF Len(line) < 3 \/ line[1] \notin Upper THEN 0
    ELSE LET stop == {k \in 2..Len(line) : line[k] \notin Lower}
         IN  IF stop = {} THEN 0
             ELSE IF MinOf(stop) >= 3 /\ line[MinOf(stop)] = ":" THEN MinOf(stop) ELSE 0

IsSectionHeader(line) == EmphasisHeaderEnd(line) > 0 \/ PlainHeaderEnd(line) > 0

\* what is left of s behind the ":.*" of a header pattern: "." stops at a
\* line terminator
BehindDotStar(s, colon) ==
    LET term == {k \in (colon + 1)..Len(s) : s[k] \in LineTerminators}
    IN  IF term = {} THEN <<>> ELSE Slice(s, MinOf(term), Len(s))

\* line.replace(/^_([A-Za-z_]+):.*/, '$1').replace(/_/g, '')
\*     .replace(/^([A-Z][a-z]+):.*/, '$1')
SectionName(line) ==
    LET e  == EmphasisHeaderEnd(line)
        s1 == IF e > 0 THEN Slice(line, 2, e - 1) \o BehindDotStar(line, e) ELSE line
        s2 == StripUnderscores(s1)
        p  == PlainHeaderEnd(s2)
    IN  IF p > 0 THEN Slice(s2, 1, p - 1) \o BehindDotStar(s2, p) ELSE s2

PrependUnderHeading(result, title, content) ==
    IF TruthyField(result, "usage")
    THEN Put(result, "usage",
             HeadingMark \o title \o BlankLine \o content \o BlankLine \o result.usage)
    ELSE Put(result, "usage", HeadingMark \o title \o BlankLine \o content)

\* if (result.usage) result.usage += '\n\n## T\n\n' + content
\* else result.usage = '## T\n\n' + content
AppendUnderHeading(result, title, content) ==
    IF TruthyField(result, "usage")
    THEN Put(result, "usage",
             result.usage \o BlankLine \o HeadingMark \o title \o BlankLine \o content)
    ELSE Put(result, "usage", HeadingMark \o title \o BlankLine \o content)

AddSectionToResult(result, section, content) ==
    LET name == ToLowerCase(section)
    IN  CASE name = DescriptionName -> Put(result, "description", content)
          [] name = UsageName -> Put(result, "usage", content)
          [] name = ArgumentsName -> AppendUnderHeading(result, ArgumentsTitle, content)
          [] name = ValueName -> AppendUnderHeading(result, ReturnValueTitle, content)
          [] name = DetailsName -> AppendUnderHeading(result, DetailsTitle, content)
          [] name = ExamplesName -> Put(result, "example", content)
          [] name \in {ReferencesName, SeeAlsoName, AuthorName, NoteName} ->
                AppendUnderHeading(result, section, content)
          [] OTHER -> result

MissingWithoutTitle(doc) ==
    ~Truthy(doc) \/ Includes(doc, DocNotFoundMarker) \/ Trim(doc) = <<>> \/ Len(Split(doc)) < 3

MissingUntrimmed(doc) == ~Truthy(doc) \/ Includes(doc, DocNotFoundMarker)

\* if (!doc || doc.includes('Documentation not found') || doc.trim() === '')
DocMissing(doc) ==
    ~Truthy(doc) \/ Includes(doc, DocNotFoundMarker) \/ Trim(doc) = <<>>

NotFoundResult(packageName, symbol) ==
    [error |-> NotFoundFor \o (IF SymbolGiven(symbol)
                               THEN packageName \o ColonColon \o symbol[1]
                               ELSE PackageWord \o packageName)]

\* if (lines.length > 2) result.description = lines[2].trim()
TitleResult(ls) ==
    IF Len(ls) > 2 THEN Put(EmptyResult, "description", Trim(ls[3])) ELSE EmptyResult

PendingWithSeveralLines(section, content) == Truthy(section) /\ Len(content) > 1

\* if (currentSection && sectionContent.length > 0) this.addSectionToResult(...)
SectionPending(section, content) == Truthy(section) /\ Len(content) > 0

FlushSection(res, section, content) ==
    IF SectionPending(section, content)
    THEN AddSectionToResult(res, section, Join(content))
    ELSE res

\* one iteration of the scan loop, on the locals of parseRDoc
ScanLine(st, line) ==
    IF IsSectionHeader(line)
    THEN [result |-> FlushSection(st.result, st.currentSection, st.sectionContent),
          currentSection |-> SectionName(line),
          sectionContent |-> <<>>]
    ELSE [st EXCEPT !.sectionContent = Append(@, line)]

\* for (let i = 3; i < lines.length; i++), from index k on (0-based)
RECURSIVE ScanFrom(_, _, _)
ScanFrom(st, ls, k) ==
    IF k < Len(ls) THEN ScanFrom(ScanLine(st, ls[k + 1]), ls, k + 1) ELSE st

FallbackForSymbolToo(res, doc, symbol) ==
    IF ~TruthyField(res, "usage") THEN Put(res, "usage", doc) ELSE res

\* if (!result.usage && !symbol) result.usage = doc
UsageFallback(res, doc, symbol) ==
    IF ~TruthyField(res, "usage") /\ ~SymbolGiven(symbol) THEN Put(res, "usage", doc) ELSE res

ParseRDoc(doc, packageName, symbol) ==
    IF DocMissing(doc) THEN NotFoundResult(packageName, symbol)
    ELSE LET ls == Split(doc)
             st == ScanFrom([result |-> TitleResult(ls), currentSection |-> <<>>,
                             sectionContent |-> <<>>], ls, 3)
         IN  UsageFallback(FlushSection(st.result, st.currentSection, st.sectionContent),
                           doc, symbol)

\* ------------------------------------------------------------------------
\* Help texts the collaborator may produce
\* ------------------------------------------------------------------------

HeaderLines ==
    {<<"U","s","a","g","e",":">>, <<"_","A","_","r","_","g","_","u","_","m","_","e","_","n","_","t","_","s",":">>, <<"V","a","l","u","e",":">>, <<"_","N","_","O","_","T","_","E",":">>, <<"E","x","a","m","p","l","e","s",":">>}

\* the content lines of one section
ContentBlocks == {<<>>, <<<<>>>>, <<<<" ","x">>>>}

\* two header lines and the title line
Preamble == <<<<"m"," "," "," ","p","a","c","k","a","g","e",":","p">>, <<>>, <<" ","T"," ">>>>

RECURSIVE SectionSeqs(_)
SectionSeqs(n) ==
    IF n = 0 THEN {<<>>}
    ELSE LET shorter == SectionSeqs(n - 1)
         IN  shorter \cup {b \o <<h>> \o c : b \in shorter, h \in HeaderLines,
                                              c \in ContentBlocks}

SectionedDocs == {Join(Preamble \o body) : body \in SectionSeqs(MaxSections)}

\* texts without the regular shape: empty, blank, marked absent, too short
\* for a title, content ahead of the first header, a header among the first
\* three lines, a header with an empty name, CRLF line ends, a Description
\* section with text behind its header, the other sections that go into
\* usage, sections of a name addSectionToResult does not know, sections of
\* several lines
SpecialDocs ==
    {<<>>, <<" ">>, <<"\n">>, <<"D","o","c","u","m","e","n","t","a","t","i","o","n"," ","n","o","t"," ","f","o","u","n","d">>,
     <<"m","\n","\n","T","\n","U","s","a","g","e",":","\n","D","o","c","u","m","e","n","t","a","t","i","o","n"," ","n","o","t"," ","f","o","u","n","d">>,
     <<"T">>, <<"a","\n","b">>, <<"m","\n","\n","T","\n","y","\n","U","s","a","g","e",":","\n"," ","x">>,
     <<"U","s","a","g","e",":","\n","u","\n","T","\n","A","r","g","u","m","e","n","t","s",":","\n"," ","x">>,
     <<"m","\n","\n","T","\n","U","s","a","g","e",":","\n"," ","x","\n","_","_",":","\n"," ","y","\n","V","a","l","u","e",":","\n"," ","z">>,
     <<"m","\n","\n","T","\n","D","e","s","c","r","i","p","t","i","o","n",":"," ","d","\n"," ","e","\n","U","s","a","g","e",":","\n"," ","x">>,
     <<"m","\n","\n","T","\n","D","e","t","a","i","l","s",":","\n"," ","d","\n","R","e","f","e","r","e","n","c","e","s",":","\n"," ","r","\n","A","u","t","h","o","r",":","\n"," ","a","\n","_","S","_","e","_","e","_","A","_","l","_","s","_","o",":","\n"," ","s","\n","U","s","a","g","e",":","\n"," ","u">>,
     <<"m","\n","\n","T","\n","O","t","h","e","r",":","\n"," ","o","\n","U","s","a","g","e",":","\n"," ","u","\n","O","t","h","e","r",":","\n"," ","p","\n","V","a","l","u","e",":","\n"," ","v">>,
     <<"m","\n","\n","T","\n","U","s","a","g","e",":","\n"," ","a","\n"," ","b","\n","\n","V","a","l","u","e",":","\n"," ","v","\n"," ","w">>,
     <<"m","\r","\n","\r","\n","T","\r","\n","U","s","a","g","e",":","\r","\n"," ","x","\r","\n","V","a","l","u","e",":","\r","\n"," ","z">>}

PackageNames == {<<"p">>}

Symbols == {Undefined, Some(<<"m">>)}

ParseInputs ==
    (SectionedDocs \X Symbols) \cup (SpecialDocs \X (Symbols \cup {Some(<<>>)}))

\* ------------------------------------------------------------------------
\* State
\* ------------------------------------------------------------------------

VARIABLES
    \* one run of parseRDoc, statement by statement
    doc, packageName, symbol,       \* its parameters
    lines, i,                       \* const lines, loop index i (0-based)
    currentSection, sectionContent, \* let currentSection, let sectionContent
    result,                         \* const result
    ppc,                            \* position in parseRDoc
    folded,                         \* history: the addSectionToResult calls made
    \* the invocations of describeRPackage and getRPackageDoc on one handler
    pc,                             \* the await each invocation is suspended at
    method, args,                   \* which method was called, with which RDocArgs
    frame,                          \* its locals that live across an await
    returned,                       \* the DocResult its promise resolved to
    execLog,                        \* history: the commands it gave to execAsync
    replies                         \* history: how those commands ended

parseVars ==
    <<doc, packageName, symbol, lines, i, currentSection, sectionContent, result, ppc, folded>>

callVars == <<pc, method, args, frame, returned, execLog, replies>>

vars ==
    <<doc, packageName, symbol, lines, i, currentSection, sectionContent, result, ppc, folded,
      pc, method, args, frame, returned, execLog, replies>>

Calls == 1..NCalls

\* ------------------------------------------------------------------------
\* parseRDoc, step by step
\* ------------------------------------------------------------------------

NoCalls ==
    /\ pc = [c \in Calls |-> "idle"]
    /\ method = [c \in Calls |-> "none"]
    /\ args = [c \in Calls |-> EmptyResult]
    /\ frame = [c \in Calls |-> EmptyResult]
    /\ returned = [c \in Calls |-> EmptyResult]
    /\ execLog = [c \in Calls |-> <<>>]
    /\ replies = [c \in Calls |-> <<>>]

ParseInit ==
    /\ \E inp \in ParseInputs : doc = inp[1] /\ symbol = inp[2]
    /\ packageName \in PackageNames
    /\ lines = <<>>
    /\ i = 0
    /\ currentSection = <<>>
    /\ sectionContent = <<>>
    /\ result = EmptyResult
    /\ ppc = "entry"
    /\ folded = <<>>
    /\ NoCalls

\* lines 210-214: the text is missing
ParseNotFound ==
    /\ ppc = "entry"
    /\ DocMissing(doc)
    /\ result' = NotFoundResult(packageName, symbol)
    /\ ppc' = "returned"
    /\ UNCHANGED <<doc, packageName, symbol, lines, i, currentSection, sectionContent, folded>>
    /\ UNCHANGED callVars

\* lines 217-243: split, take the title, enter the loop
ParseBegin ==
    /\ ppc = "entry"
    /\ ~DocMissing(doc)
    /\ lines' = Split(doc)
    /\ currentSection' = <<>>
    /\ sectionContent' = <<>>
    /\ result' = TitleResult(Split(doc))
    /\ i' = 3
    /\ ppc' = "scan"
    /\ UNCHANGED <<doc, packageName, symbol, folded>>
    /\ UNCHANGED callVars

\* lines 243-263: one iteration of the loop
ParseScan ==
    /\ ppc = "scan"
    /\ i < Len(lines)
    /\ LET st == ScanLine([result |-> result, currentSection |-> currentSection,
                           sectionContent |-> sectionContent], lines[i + 1])
       IN  /\ result' = st.result
           /\ currentSection' = st.currentSection
           /\ sectionContent' = st.sectionContent
    /\ folded' = IF IsSectionHeader(lines[i + 1]) /\ SectionPending(currentSection, sectionContent)
                 THEN Append(folded, <<currentSection, Join(sectionContent)>>)
                 ELSE folded
    /\ i' = i + 1
    /\ UNCHANGED <<doc, packageName, symbol, lines, ppc>>
    /\ UNCHANGED callVars

\* lines 265-268: the loop is over, the last section is added
ParseLastSection ==
    /\ ppc = "scan"
    /\ i >= Len(lines)
    /\ result' = FlushSection(result, currentSection, sectionContent)
    /\ folded' = IF SectionPending(currentSection, sectionContent)
                 THEN Append(folded, <<currentSection, Join(sectionContent)>>)
                 ELSE folded
    /\ ppc' = "fallback"
    /\ UNCHANGED <<doc, packageName, symbol, lines, i, currentSection, sectionContent>>
    /\ UNCHANGED callVars

\* lines 270-275: the package overview fallback, and the return
ParseReturn ==
    /\ ppc = "fallback"
    /\ result' = UsageFallback(result, doc, symbol)
    /\ ppc' = "returned"
    /\ UNCHANGED <<doc, packageName, symbol, lines, i, currentSection, sectionContent, folded>>
    /\ UNCHANGED callVars

ParseNext ==
    \/ ParseNotFound
    \/ ParseBegin
    \/ ParseScan
    \/ ParseLastSection
    \/ ParseReturn

SpecParse == ParseInit /\ [][ParseNext]_vars

\* the run of parseRDoc agrees with the function the handlers call
ParseRunIsParseRDoc == ppc = "returned" => result = ParseRDoc(doc, packageName, symbol)

\* ------------------------------------------------------------------------
\* execAsync: the commands and how they may end
\* ------------------------------------------------------------------------

\* the promise resolves with the command's standard output
Resolved(stdout) == [ok |-> TRUE, stdout |-> stdout]

\* the promise rejects with an Error carrying a message
Rejected(message) == [ok |-> FALSE, message |-> message]

ExecMessages == {<<"e","x","i","t"," ","1">>}

Failures == {Rejected(msg) : msg \in ExecMessages}

\* execAsync('which Rscript')
WhichCmd == [cmd |-> "which", package |-> <<>>, symbol |-> Undefined]

\* Rscript -e "cat(requireNamespace('<package>', quietly = TRUE))"
RequireNamespaceCmd(package) ==
    [cmd |-> "requireNamespace", package |-> package, symbol |-> Undefined]

\* Rscript -e "help('<symbol>', package='<package>')"
HelpSymbolCmd(package, sym) == [cmd |-> "help", package |-> package, symbol |-> Some(sym)]

\* Rscript -e "help(package='<package>')"
HelpPackageCmd(package) == [cmd |-> "help", package |-> package, symbol |-> Undefined]

\* Rscript -e "example('<symbol>', package='<package>', ask=FALSE, echo=TRUE)"
ExampleCmd(package, sym) == [cmd |-> "example", package |-> package, symbol |-> Some(sym)]

\* Rscript -e "info <- packageDescription('<package>'); ..."
PackageDescriptionCmd(package) ==
    [cmd |-> "packageDescription", package |-> package, symbol |-> Undefined]

\* Rscript -e "library('<package>'); funcs <- ls('package:<package>'); ..."
ListFunctionsCmd(package) == [cmd |-> "ls", package |-> package, symbol |-> Undefined]

WhichOutcomes == {Resolved(<<"/","u","s","r","/","b","i","n","/","R","s","c","r","i","p","t","\n">>)} \cup Failures

RequireNamespaceOutcomes ==
    {Resolved(<<"T","R","U","E","\n">>), Resolved(<<"F","A","L","S","E">>)} \cup Failures

\* help texts of a symbol: none, marked absent, a title only, sections
HelpTexts ==
    {<<>>, <<"D","o","c","u","m","e","n","t","a","t","i","o","n"," ","n","o","t"," ","f","o","u","n","d">>, <<"m","\n","\n","T">>,
     <<"m","\n","\n","T","\n","U","s","a","g","e",":","\n"," ","m","(","x",")","\n","E","x","a","m","p","l","e","s",":","\n"," ","m","(","1",")">>}

HelpOutcomes == {Resolved(text) : text \in HelpTexts} \cup Failures

ExampleOutcomes == {Resolved(<<>>), Resolved(<<" ","\n">>), Resolved(<<">"," ","m","(","1",")","\n">>)} \cup Failures

OverviewOutcomes == {Resolved(<<"I","n","d","e","x",":","\n","\n","m"," "," ","M","e","a","n">>)} \cup Failures

PackageDescriptionOutcomes == {Resolved(<<"P","a","c","k","a","g","e",":"," "," ","p"," ","\n">>)} \cup Failures

ListFunctionsOutcomes == {Resolved(<<"-"," ","m">>)} \cup Failures

Queries ==
    {[package |-> p, symbol |-> s] : p \in PackageNames, s \in Symbols \cup {Some(<<>>)}}

\* ------------------------------------------------------------------------
\* isRInstalled, isRPackageInstalled and the results of the early returns
\* ------------------------------------------------------------------------

\* try { await execAsync('which Rscript'); return true } catch { return false }
IsRInstalled(o) == o.ok

AssumedInstalled(o) == TRUE

\* try { return stdout.trim() === 'TRUE' } catch { return false }
IsRPackageInstalled(o) == o.ok /\ Trim(o.stdout) = TrueText

RNotInstalled == [error |-> RNotInstalledMsg]

PackageNotInstalled(package) ==
    [error |-> PkgMsgA \o package \o PkgMsgB \o package \o PkgMsgC, suggestInstall |-> TRUE]

\* catch (error) { return { error: `Failed to fetch R documentation: ${errorMessage}` } }
FetchFailed(o) == [error |-> FailedToFetch \o o.message]

Propagated(o) == [pc |-> "raised", returned |-> EmptyResult]

\* where a rejected execAsync inside the try block leaves the invocation:
\* the catch block returns normally
OnRejected(o) == [pc |-> "done", returned |-> FetchFailed(o)]

ExamplesFailureReported(res) == [error |-> FailedToFetch]

\* the rejected example() command: the inner catch logs and goes on
ExamplesIgnored(res) == res

\* if (examplesOutput && examplesOutput.trim() !== '') result.example = examplesOutput
WithExamples(res, o) ==
    IF o.ok
    THEN (IF Truthy(o.stdout) /\ Trim(o.stdout) # <<>> THEN Put(res, "example", o.stdout) ELSE res)
    ELSE ExamplesIgnored(res)

\* result.description = descOutput; result.usage = `# Package Overview...`
PackageDoc(res, overviewOutput, descOutput, functionsOutput) ==
    Put(Put(res, "description", descOutput), "usage",
        OverviewHeading \o overviewOutput \o ExportedHeading \o functionsOutput)

SharedSlot(c) == 1

\* the storage of the locals of invocation c: every call has its own
Slot(c) == c

\* ------------------------------------------------------------------------
\* The invocations
\* ------------------------------------------------------------------------

Init ==
    /\ doc = <<>>
    /\ packageName = <<>>
    /\ symbol = Undefined
    /\ lines = <<>>
    /\ i = 0
    /\ currentSection = <<>>
    /\ sectionContent = <<>>
    /\ result = EmptyResult
    /\ ppc = "off"
    /\ folded = <<>>
    /\ NoCalls

\* the command goes to execAsync and the invocation is suspended on it
Await(c, cmd, at) ==
    /\ execLog' = [execLog EXCEPT ![c] = Append(@, cmd)]
    /\ pc' = [pc EXCEPT ![c] = at]
    /\ UNCHANGED returned

\* the promise of the invocation resolves
Return(c, res) ==
    /\ returned' = [returned EXCEPT ![c] = res]
    /\ pc' = [pc EXCEPT ![c] = "done"]
    /\ UNCHANGED execLog

\* the invocation leaves the try block by a rejected command
Reject(c, o) ==
    /\ returned' = [returned EXCEPT ![c] = OnRejected(o).returned]
    /\ pc' = [pc EXCEPT ![c] = OnRejected(o).pc]
    /\ UNCHANGED execLog

Resume(c, at, o) ==
    /\ pc[c] = at
    /\ replies' = [replies EXCEPT ![c] = Append(@, o)]
    /\ UNCHANGED <<method, args>>
    /\ UNCHANGED parseVars

\* lines 84-90 and 132-138: the call, up to the await of isRInstalled
Call(c, m, q) ==
    /\ pc[c] = "idle"
    /\ method' = [method EXCEPT ![c] = m]
    /\ args' = [args EXCEPT ![c] = q]
    /\ frame' = [frame EXCEPT ![Slot(c)] = [packageName |-> q.package, symbol |-> q.symbol]]
    /\ Await(c, WhichCmd, "isRInstalled")
    /\ UNCHANGED replies
    /\ UNCHANGED parseVars

DescribeCall(c) == \E q \in Queries : Call(c, "describeRPackage", q)

GetDocCall(c) == \E q \in Queries : Call(c, "getRPackageDoc", q)

\* lines 90-98 and 138-146: R is or is not there
RChecked(c, o) ==
    /\ Resume(c, "isRInstalled", o)
    /\ IF ~IsRInstalled(o)
       THEN Return(c, RNotInstalled)
       ELSE Await(c, RequireNamespaceCmd(frame[Slot(c)].packageName), "isRPackageInstalled")
    /\ UNCHANGED frame

\* lines 98-116: describeRPackage after the package check
DescribePackageChecked(c, o) ==
    /\ method[c] = "describeRPackage"
    /\ Resume(c, "isRPackageInstalled", o)
    /\ LET f == frame[Slot(c)]
       IN  IF ~IsRPackageInstalled(o)
           THEN Return(c, PackageNotInstalled(f.packageName))
           ELSE IF SymbolGiven(f.symbol)
                THEN Await(c, HelpSymbolCmd(f.packageName, f.symbol[1]), "help")
                ELSE Await(c, HelpPackageCmd(f.packageName), "help")
    /\ UNCHANGED frame

\* lines 116-126: the help text is parsed, or the catch block answers
DescribeHelp(c, o) ==
    /\ method[c] = "describeRPackage"
    /\ Resume(c, "help", o)
    /\ LET f == frame[Slot(c)]
       IN  IF o.ok
           THEN Return(c, ParseRDoc(o.stdout, f.packageName, f.symbol))
           ELSE Reject(c, o)
    /\ UNCHANGED frame

\* lines 146-160 and 181-182: getRPackageDoc after the package check
GetDocPackageChecked(c, o) ==
    /\ method[c] = "getRPackageDoc"
    /\ Resume(c, "isRPackageInstalled", o)
    /\ LET f == frame[Slot(c)]
       IN  IF ~IsRPackageInstalled(o)
           THEN Return(c, PackageNotInstalled(f.packageName)) /\ UNCHANGED frame
           ELSE /\ frame' = [frame EXCEPT ![Slot(c)] = Put(f, "result", EmptyResult)]
                /\ IF SymbolGiven(f.symbol)
                   THEN Await(c, HelpSymbolCmd(f.packageName, f.symbol[1]), "help")
                   ELSE Await(c, HelpPackageCmd(f.packageName), "overview")

\* lines 160-168: the help of the symbol is parsed, example() is run
GetDocHelp(c, o) ==
    /\ method[c] = "getRPackageDoc"
    /\ Resume(c, "help", o)
    /\ LET f == frame[Slot(c)]
       IN  IF o.ok
           THEN /\ frame' = [frame EXCEPT ![Slot(c)] =
                                Put(f, "result", ParseRDoc(o.stdout, f.packageName, f.symbol))]
                /\ Await(c, ExampleCmd(f.packageName, f.symbol[1]), "examples")
           ELSE Reject(c, o) /\ UNCHANGED frame

\* lines 168-177: the examples, if any, replace the parsed ones
GetDocExamples(c, o) ==
    /\ method[c] = "getRPackageDoc"
    /\ Resume(c, "examples", o)
    /\ Return(c, WithExamples(frame[Slot(c)].result, o))
    /\ frame' = [frame EXCEPT ![Slot(c)] =
                    Put(@, "result", WithExamples(frame[Slot(c)].result, o))]

\* lines 182-186: the overview is kept, packageDescription() is run
GetDocOverview(c, o) ==
    /\ method[c] = "getRPackageDoc"
    /\ Resume(c, "overview", o)
    /\ LET f == frame[Slot(c)]
       IN  IF o.ok
           THEN /\ frame' = [frame EXCEPT ![Slot(c)] = Put(f, "overviewOutput", o.stdout)]
                /\ Await(c, PackageDescriptionCmd(f.packageName), "description")
           ELSE Reject(c, o) /\ UNCHANGED frame

\* lines 186-190: the metadata is kept, the exported functions are listed
GetDocDescription(c, o) ==
    /\ method[c] = "getRPackageDoc"
    /\ Resume(c, "description", o)
    /\ LET f == frame[Slot(c)]
       IN  IF o.ok
           THEN /\ frame' = [frame EXCEPT ![Slot(c)] = Put(f, "descOutput", o.stdout)]
                /\ Await(c, ListFunctionsCmd(f.packageName), "functions")
           ELSE Reject(c, o) /\ UNCHANGED frame

\* lines 190-203: the three texts are combined
GetDocFunctions(c, o) ==
    /\ method[c] = "getRPackageDoc"
    /\ Resume(c, "functions", o)
    /\ LET f == frame[Slot(c)]
       IN  IF o.ok
           THEN /\ Return(c, PackageDoc(f.result, f.overviewOutput, f.descOutput, o.stdout))
                /\ frame' = [frame EXCEPT ![Slot(c)] =
                                Put(f, "result",
                                    PackageDoc(f.result, f.overviewOutput, f.descOutput,
                                               o.stdout))]
           ELSE Reject(c, o) /\ UNCHANGED frame

Next ==
    \E c \in Calls :
        \/ DescribeCall(c)
        \/ GetDocCall(c)
        \/ \E o \in WhichOutcomes : RChecked(c, o)
        \/ \E o \in RequireNamespaceOutcomes : DescribePackageChecked(c, o)
        \/ \E o \in HelpOutcomes : DescribeHelp(c, o)
        \/ \E o \in RequireNamespaceOutcomes : GetDocPackageChecked(c, o)
        \/ \E o \in HelpOutcomes : GetDocHelp(c, o)
        \/ \E o \in ExampleOutcomes : GetDocExamples(c, o)
        \/ \E o \in OverviewOutcomes : GetDocOverview(c, o)
        \/ \E o \in PackageDescriptionOutcomes : GetDocDescription(c, o)
        \/ \E o \in ListFunctionsOutcomes : GetDocFunctions(c, o)

Spec == Init /\ [][Next]_vars

\* ------------------------------------------------------------------------
\* Properties of the invocations (under Spec)
\* ------------------------------------------------------------------------

SuccessFields == {"description", "usage", "example"}

DocResultFields == SuccessFields \cup {"error", "searchResults", "suggestInstall"}

Done(c) == pc[c] = "done"

\* the first command of invocation c was answered and R is not there
ToolUnavailable(c) == Len(replies[c]) >= 1 /\ ~replies[c][1].ok

\* R is there, the second command was answered and did not print TRUE
PackageAbsent(c) ==
    /\ Len(replies[c]) >= 2
    /\ replies[c][1].ok
    /\ ~(replies[c][2].ok /\ Trim(replies[c][2].stdout) = <<"T","R","U","E">>)

FetchCmds == {"help", "example", "packageDescription", "ls"}

\* C1: in describeRPackage and getRPackageDoc the first command is the check
\* for R, the second the check for the package, and only after both succeeded
\* is any text fetched; without R the call returns exactly { error } after
\* that one command; with R but without the package it returns error and
\* suggestInstall = true, none of description, usage, example, after those
\* two commands.
C1_ChecksBeforeFetch ==
    \A c \in Calls :
        /\ Len(execLog[c]) >= 1 => execLog[c][1] = WhichCmd
        /\ Len(execLog[c]) >= 2 =>
              /\ execLog[c][2] = RequireNamespaceCmd(args[c].package)
              /\ replies[c][1].ok
        /\ \A k \in 3..Len(execLog[c]) :
              /\ execLog[c][k].cmd \in FetchCmds
              /\ replies[c][2].ok /\ Trim(replies[c][2].stdout) = <<"T","R","U","E">>
        /\ ToolUnavailable(c) =>
              /\ Done(c)
              /\ DOMAIN returned[c] = {"error"}
              /\ returned[c].error = RNotInstalledMsg
              /\ Len(execLog[c]) = 1
        /\ PackageAbsent(c) =>
              /\ Done(c)
              /\ DOMAIN returned[c] = {"error", "suggestInstall"}
              /\ returned[c].suggestInstall = TRUE
              /\ returned[c].error =
                    <<"P","a","c","k","a","g","e"," ">> \o args[c].package \o PkgMsgB
                    \o args[c].package \o PkgMsgC
              /\ Len(execLog[c]) = 2

\* a getRPackageDoc call ended at the package check, a describeRPackage call
\* at the check for R
C1_Witness ==
    \E c, d \in Calls :
        /\ method[c] = "getRPackageDoc" /\ PackageAbsent(c) /\ Done(c)
        /\ method[d] = "describeRPackage" /\ ToolUnavailable(d) /\ Done(d)

\* the k-th command of invocation c was a fetch of primary text and failed
PrimaryFetchFailed(c, k) ==
    /\ k <= Len(replies[c])
    /\ execLog[c][k].cmd \in {"help", "packageDescription", "ls"}
    /\ ~replies[c][k].ok

\* the step invocation c takes when its pending command ends
Resumes(c) ==
    \/ \E o \in WhichOutcomes : RChecked(c, o)
    \/ \E o \in RequireNamespaceOutcomes : DescribePackageChecked(c, o)
    \/ \E o \in HelpOutcomes : DescribeHelp(c, o)
    \/ \E o \in RequireNamespaceOutcomes : GetDocPackageChecked(c, o)
    \/ \E o \in HelpOutcomes : GetDocHelp(c, o)
    \/ \E o \in ExampleOutcomes : GetDocExamples(c, o)
    \/ \E o \in OverviewOutcomes : GetDocOverview(c, o)
    \/ \E o \in PackageDescriptionOutcomes : GetDocDescription(c, o)
    \/ \E o \in ListFunctionsOutcomes : GetDocFunctions(c, o)

\* C2: no invocation raises: whatever way each command ends, the invocation
\* is idle, suspended on a command with a step to take, or done with a
\* DocResult; and after a failed fetch of primary text it is done with an
\* error that contains the failure's message and with none of description,
\* usage, example.
C2_NeverRaises ==
    \A c \in Calls :
        /\ pc[c] # "raised"
        /\ pc[c] \notin {"idle", "done"} => ENABLED Resumes(c)
        /\ Done(c) => DOMAIN returned[c] \subseteq DocResultFields /\ returned[c] # EmptyResult
        /\ \A k \in 3..Len(replies[c]) :
              PrimaryFetchFailed(c, k) =>
                  /\ Done(c)
                  /\ "error" \in DOMAIN returned[c]
                  /\ Includes(returned[c].error, replies[c][k].message)
                  /\ DOMAIN returned[c] \cap SuccessFields = {}

\* the last of the three package texts failed, and a help fetch failed
C2_Witness ==
    \E c, d \in Calls :
        /\ Done(c) /\ Len(replies[c]) = 5 /\ PrimaryFetchFailed(c, 5)
        /\ Done(d) /\ Len(replies[d]) = 3 /\ PrimaryFetchFailed(d, 3)

\* C3: in every DocResult that describeRPackage or getRPackageDoc returns,
\* error excludes description, usage and example.
C3_ErrorExcludesSuccess ==
    \A c \in Calls :
        Done(c) => ~("error" \in DOMAIN returned[c] /\ DOMAIN returned[c] \cap SuccessFields # {})

\* invocation c is a getRPackageDoc call for a symbol whose example() command
\* was answered
ExamplesAnswered(c) ==
    /\ method[c] = "getRPackageDoc"
    /\ Len(replies[c]) = 4
    /\ execLog[c][4].cmd = "example"

\* C4: getRPackageDoc for a symbol returns the parsed help result, with
\* example replaced by the text of example() exactly when that command
\* succeeded with text that is not blank; when it failed or printed only
\* white space the parsed result is returned as it is, no error added.
C4_ExamplesBestEffort ==
    \A c \in Calls :
        ExamplesAnswered(c) =>
            LET parsed == ParseRDoc(replies[c][3].stdout, args[c].package, args[c].symbol)
                ex == replies[c][4]
                fetched == ex.ok /\ \E k \in 1..Len(ex.stdout) : ex.stdout[k] \notin WhiteSpace
            IN  /\ Done(c)
                /\ fetched => returned[c] = Put(parsed, "example", ex.stdout)
                /\ ~fetched => returned[c] = parsed
                /\ ("error" \in DOMAIN returned[c]) = ("error" \in DOMAIN parsed)

\* example() failed and the parsed Examples section is what is returned; in
\* another call example() printed text, which replaced the parsed section
C4_Witness ==
    \E c, d \in Calls :
        /\ ExamplesAnswered(c) /\ ~replies[c][4].ok
        /\ "example" \in DOMAIN returned[c] /\ "error" \notin DOMAIN returned[c]
        /\ ExamplesAnswered(d) /\ replies[d][4].ok
        /\ "example" \in DOMAIN returned[d] /\ returned[d].example = replies[d][4].stdout
        /\ replies[d][3] = replies[c][3]

\* what describeRPackage returns for query q when it runs alone and its
\* commands end as rs
DescribeAlone(q, rs) ==
    IF ~rs[1].ok THEN [error |-> RNotInstalledMsg]
    ELSE IF ~(rs[2].ok /\ Trim(rs[2].stdout) = <<"T","R","U","E">>)
         THEN [error |-> PkgMsgA \o q.package \o PkgMsgB \o q.package \o PkgMsgC,
               suggestInstall |-> TRUE]
    ELSE IF ~rs[3].ok THEN [error |-> FailedToFetch \o rs[3].message]
    ELSE ParseRDoc(rs[3].stdout, q.package, q.symbol)

\* the same for getRPackageDoc
GetDocAlone(q, rs) ==
    IF ~rs[1].ok THEN [error |-> RNotInstalledMsg]
    ELSE IF ~(rs[2].ok /\ Trim(rs[2].stdout) = <<"T","R","U","E">>)
         THEN [error |-> PkgMsgA \o q.package \o PkgMsgB \o q.package \o PkgMsgC,
               suggestInstall |-> TRUE]
    ELSE IF \E k \in 3..Len(rs) : rs[k].ok = FALSE /\ ~(SymbolGiven(q.symbol) /\ k = 4)
         THEN [error |-> FailedToFetch \o rs[Len(rs)].message]
    ELSE IF SymbolGiven(q.symbol)
         THEN LET parsed == ParseRDoc(rs[3].stdout, q.package, q.symbol)
              IN  IF rs[4].ok /\ Trim(rs[4].stdout) # <<>>
                  THEN Put(parsed, "example", rs[4].stdout)
                  ELSE parsed
    ELSE [description |-> rs[4].stdout,
          usage |-> OverviewHeading \o rs[3].stdout \o ExportedHeading \o rs[5].stdout]

\* the commands invocation c gives when it runs alone: they name its own
\* package and symbol
OwnCommands(c) ==
    \A k \in 1..Len(execLog[c]) :
        /\ execLog[c][k].package \in {<<>>, args[c].package}
        /\ execLog[c][k].symbol \in {Undefined, args[c].symbol}

\* C9: invocations share no state: with two or more calls interleaved at
\* their awaits in every possible way, each call gives the commands of its
\* own query and returns what it returns when run alone on the same command
\* outcomes.
C9_CallsAreIsolated ==
    \A c \in Calls :
        /\ OwnCommands(c)
        /\ Done(c) =>
              returned[c] = IF method[c] = "describeRPackage"
                            THEN DescribeAlone(args[c], replies[c])
                            ELSE GetDocAlone(args[c], replies[c])

\* one call is suspended on example() with its parsed help in hand, another
\* call for a different text has returned a different result
C9_Witness ==
    \E c, d \in Calls :
        /\ c # d
        /\ pc[c] = "examples" /\ Done(d)
        /\ method[d] = "getRPackageDoc" /\ Len(replies[d]) = 4
        /\ replies[d][3] # replies[c][3]
        /\ returned[d] # frame[c].result
        /\ "usage" \in DOMAIN returned[d]

\* ------------------------------------------------------------------------
\* Properties of parseRDoc (under SpecParse)
\* ------------------------------------------------------------------------

ParseReturned == ppc = "returned"

Blank(s) == \A k \in 1..Len(s) : s[k] \in WhiteSpace

HasMarker(s) ==
    \E k \in 1..Len(s) : k + 22 <= Len(s) /\ SubSeq(s, k, k + 22) = DocNotFoundMarker

\* C5 as stated: every text that is not empty and does not contain the
\* marker parses to a result without error.
C5_NonEmptyNoError ==
    (ParseReturned /\ doc # <<>> /\ ~HasMarker(doc)) => "error" \notin DOMAIN result

\* C5, amended: every text that is not empty, not made of white space only
\* and does not contain the marker parses to a result without error.
C5_NonBlankNoError ==
    (ParseReturned /\ doc # <<>> /\ ~Blank(doc) /\ ~HasMarker(doc)) => "error" \notin DOMAIN result

\* a text of one line, too short for a title, parsed without error
C5_Witness ==
    /\ ParseReturned /\ doc = <<"T">>
    /\ "error" \notin DOMAIN result

\* C6: an empty text, a text of white space only and a text containing the
\* marker parse to a result whose only field is error, "Documentation not
\* found for " followed by package::symbol or by "package " and the package;
\* the usage fallback is not applied.
C6_MissingTextOnlyError ==
    (ParseReturned /\ (doc = <<>> \/ Blank(doc) \/ HasMarker(doc))) =>
        /\ DOMAIN result = {"error"}
        /\ result.error =
              NotFoundFor \o (IF symbol # Undefined /\ symbol[1] # <<>>
                              THEN packageName \o <<":", ":">> \o symbol[1]
                              ELSE <<"p","a","c","k","a","g","e"," ">> \o packageName)
        /\ folded = <<>>

\* a text of white space only, for a package without symbol
C6_Witness ==
    /\ ParseReturned /\ doc = <<" ">> /\ symbol = Undefined
    /\ DOMAIN result = {"error"}

\* the indices (from 1) of the header lines the scan meets in the lines ls:
\* the scan starts behind the third line
HeaderAt(ls) == {k \in 4..Len(ls) : IsSectionHeader(ls[k])}

NameAt(ls, k) == ToLowerCase(SectionName(ls[k]))

\* the text has exactly the sections Usage, Arguments, Value, in that order
ThreeSections(ls) ==
    LET H == HeaderAt(ls)
    IN  /\ Cardinality(H) = 3
        /\ NameAt(ls, MinOf(H)) = <<"u","s","a","g","e">>
        /\ NameAt(ls, MinOf(H \ {MinOf(H)})) = <<"a","r","g","u","m","e","n","t","s">>
        /\ NameAt(ls, MaxOf(H)) = <<"v","a","l","u","e">>

\* the content of a section: the lines between its header and the next
\* header (or the end), joined
ContentBetween(ls, from, to) == Join(Slice(ls, from + 1, to - 1))

\* U, then the Arguments block with A, then the Return Value block with V;
\* an empty U has nothing to be separated from
UsageArgumentsValue(U, A, V) ==
    (IF U = <<>> THEN <<>> ELSE U \o <<"\n", "\n">>)
    \o <<"#","#"," ","A","r","g","u","m","e","n","t","s","\n","\n">> \o A
    \o <<"\n","\n","#","#"," ","R","e","t","u","r","n"," ","V","a","l","u","e","\n","\n">> \o V

\* usage is U, the Arguments block, the Return Value block of the lines ls
FoldedInOrder(ls) ==
    LET H == HeaderAt(ls)
        u == MinOf(H)
        a == MinOf(H \ {u})
        v == MaxOf(H)
    IN  /\ "usage" \in DOMAIN result
        /\ result.usage = UsageArgumentsValue(ContentBetween(ls, u, a), ContentBetween(ls, a, v),
                                              ContentBetween(ls, v, Len(ls) + 1))

\* the Arguments section and the Value section have a content line
ArgumentsAndValueHaveLines(ls) ==
    LET H == HeaderAt(ls)
    IN  MaxOf(H) > MinOf(H \ {MinOf(H)}) + 1 /\ Len(ls) > MaxOf(H)

\* C7 as stated: a text whose sections are Usage, Arguments, Value, with
\* contents U, A, V, parses to usage = U, the Arguments block with A, the
\* Return Value block with V, each block behind a blank line.
C7_FoldOrderAnyContent ==
    (ParseReturned /\ ThreeSections(Split(doc))) => FoldedInOrder(Split(doc))

\* C7, amended: the same, for texts in which the Arguments section and the
\* Value section each have at least one content line (a section whose header
\* is directly followed by the next header or by the end of the text adds no
\* block); when U is empty the Arguments block begins the field.
C7_FoldOrder ==
    (ParseReturned /\ ThreeSections(Split(doc)) /\ ArgumentsAndValueHaveLines(Split(doc))) =>
        FoldedInOrder(Split(doc))

\* Usage, Arguments, Value, each with a content line that is not empty
C7_Witness ==
    /\ ParseReturned /\ ThreeSections(Split(doc))
    /\ Len(folded) = 3
    /\ \A k \in 1..3 : folded[k][2] # <<>>
    /\ FoldedInOrder(Split(doc))

UsageGroup ==
    {<<"a","r","g","u","m","e","n","t","s">>, <<"v","a","l","u","e">>,
     <<"d","e","t","a","i","l","s">>, <<"r","e","f","e","r","e","n","c","e","s">>,
     <<"s","e","e","a","l","s","o">>, <<"a","u","t","h","o","r">>, <<"n","o","t","e">>}

\* no section folded so far has put anything into usage
NoUsageFolded ==
    \A k \in 1..Len(folded) :
        ToLowerCase(folded[k][1]) \notin (UsageGroup \cup {<<"u","s","a","g","e">>})

\* C8: at the end of parseRDoc, when no symbol was passed and no section has
\* populated usage, usage becomes the whole text as it was passed in; when a
\* symbol was passed the result is returned as the sections left it.
C8_OverviewFallback ==
    [][(ppc = "fallback" /\ ppc' = "returned") =>
          /\ (symbol = Undefined /\ NoUsageFolded) =>
                /\ "usage" \notin DOMAIN result
                /\ result' = [g \in (DOMAIN result) \cup {"usage"} |->
                                 IF g = "usage" THEN doc ELSE result[g]]
          /\ (symbol # Undefined /\ symbol[1] # <<>>) => result' = result]_vars

\* an overview text with an Examples section only: usage is the whole text
C8_Witness ==
    /\ ParseReturned /\ symbol = Undefined
    /\ folded # <<>> /\ NoUsageFolded
    /\ result.usage = doc /\ "example" \in DOMAIN result

IsPrefix(s, t) == Len(s) <= Len(t) /\ SubSeq(t, 1, Len(s)) = s

\* the addSectionToResult call made in this step, if one is made
Last(s) == s[Len(s)]

\* the sub-heading a section of the usage group goes under
SubHeading(section) ==
    LET name == ToLowerCase(section)
    IN  IF name = <<"a","r","g","u","m","e","n","t","s">> THEN <<"A","r","g","u","m","e","n","t","s">>
        ELSE IF name = <<"v","a","l","u","e">>
             THEN <<"R","e","t","u","r","n"," ","V","a","l","u","e">>
        ELSE IF name = <<"d","e","t","a","i","l","s">> THEN <<"D","e","t","a","i","l","s">>
        ELSE section

\* C10 as stated: folding a usage, arguments, value, details, references,
\* seealso, author or note section keeps what earlier sections put into
\* usage, in place, and puts the section's content behind it.
C10_FoldKeepsEarlierUsage ==
    [][(folded' # folded
        /\ ToLowerCase(Last(folded')[1]) \in (UsageGroup \cup {<<"u","s","a","g","e">>})) =>
          /\ "usage" \in DOMAIN result'
          /\ ("usage" \in DOMAIN result => IsPrefix(result.usage, result'.usage))]_vars

\* C10, amended: folding an arguments, value, details, references, seealso,
\* author or note section keeps usage as it is and appends a blank line, the
\* sub-heading line, a blank line and the content (only the sub-heading and
\* the content when usage is absent or empty); folding a usage section
\* replaces usage by that section's content; no other field changes.
C10_AppendKeepsEarlierUsage ==
    [][folded' # folded =>
          LET section == Last(folded')[1]
              content == Last(folded')[2]
              block == <<"#","#"," ">> \o SubHeading(section) \o <<"\n","\n">> \o content
          IN  /\ ToLowerCase(section) \in UsageGroup =>
                    /\ "usage" \in DOMAIN result'
                    /\ result'.usage =
                          IF "usage" \in DOMAIN result /\ result.usage # <<>>
                          THEN result.usage \o <<"\n","\n">> \o block
                          ELSE block
                    /\ \A g \in DOMAIN result : g # "usage" => result'[g] = result[g]
              /\ ToLowerCase(section) = <<"u","s","a","g","e">> =>
                    /\ "usage" \in DOMAIN result'
                    /\ result'.usage = content
                    /\ \A g \in DOMAIN result : g # "usage" => result'[g] = result[g]]_vars

\* a Note section ahead of an Arguments section: usage holds the Note block,
\* then the Arguments block
C10_Witness ==
    /\ ParseReturned /\ Len(folded) = 2
    /\ ToLowerCase(folded[1][1]) = <<"n","o","t","e">>
    /\ ToLowerCase(folded[2][1]) = <<"a","r","g","u","m","e","n","t","s">>
    /\ folded[1][2] # <<>> /\ folded[2][2] # <<>>
    /\ result.usage = <<"#","#"," ">> \o folded[1][1] \o <<"\n","\n">> \o folded[1][2]
                      \o <<"\n","\n","#","#"," ","A","r","g","u","m","e","n","t","s","\n","\n">>
                      \o folded[2][2]

\* the sections of the lines ls whose headers are at the indices H, in input
\* order: a section is closed by the next header, the last one by the end of
\* the scan at index closeAt (0: the scan has not ended, the last section is
\* still accumulating)
RECURSIVE SectionsOf(_, _, _)
SectionsOf(ls, H, closeAt) ==
    IF H = {} THEN <<>>
    ELSE LET k == MinOf(H)
             rest == H \ {k}
         IN  IF rest = {}
             THEN (IF closeAt = 0 THEN <<>>
                   ELSE <<[name |-> SectionName(ls[k]),
                           contentLines |-> Slice(ls, k + 1, closeAt - 1)]>>)
             ELSE <<[name |-> SectionName(ls[k]),
                     contentLines |-> Slice(ls, k + 1, MinOf(rest) - 1)]>>
                  \o SectionsOf(ls, rest, closeAt)

\* the sections closed when the scan has read the first n lines; at the end
\* of the input the pending section is closed too
ClosedSections(n, atEnd) ==
    SectionsOf(lines, {k \in 4..n : IsSectionHeader(lines[k])}, IF atEnd THEN n + 1 ELSE 0)

\* the fold calls that flushing every one of the sections secs makes
RECURSIVE FoldsOfAll(_)
FoldsOfAll(secs) ==
    IF secs = <<>> THEN <<>>
    ELSE <<<<secs[1].name, Join(secs[1].contentLines)>>>> \o FoldsOfAll(Tail(secs))

\* the fold calls for the sections that have a name and a content line
RECURSIVE FoldsOfFilled(_)
FoldsOfFilled(secs) ==
    IF secs = <<>> THEN <<>>
    ELSE (IF secs[1].name # <<>> /\ Len(secs[1].contentLines) > 0
          THEN <<<<secs[1].name, Join(secs[1].contentLines)>>>>
          ELSE <<>>) \o FoldsOfFilled(Tail(secs))

\* the result after the fold calls fs, made in order on the result res
RECURSIVE AfterFolds(_, _)
AfterFolds(res, fs) ==
    IF fs = <<>> THEN res
    ELSE AfterFolds(AddSectionToResult(res, fs[1][1], fs[1][2]), Tail(fs))

\* C11 as stated: when the scan meets a header, the section accumulated
\* before it is folded, and at the end of the input the pending section is
\* folded: the fold calls made are those of every section whose header was
\* recognized, once each, in input order, with its name and joined lines.
C11_EverySectionFolded ==
    /\ ppc = "scan" => folded = FoldsOfAll(ClosedSections(i, FALSE))
    /\ ppc \in {"fallback", "returned"} => folded = FoldsOfAll(ClosedSections(Len(lines), TRUE))

\* C11, amended: the same for the sections that have a name and at least one
\* content line: each is folded exactly once, in input order, with its name
\* and its joined content lines, before accumulation restarts and at the end
\* of the input; a section whose header is directly followed by the next
\* header or by the end of the input, or whose name is empty, is not folded.
\* The result is the title folded over by those calls.
C11_FilledSectionsFolded ==
    /\ ppc = "scan" =>
          /\ folded = FoldsOfFilled(ClosedSections(i, FALSE))
          /\ result = AfterFolds(TitleResult(lines), folded)
    /\ ppc \in {"fallback", "returned"} =>
          folded = FoldsOfFilled(ClosedSections(Len(lines), TRUE))
    /\ ppc = "fallback" => result = AfterFolds(TitleResult(lines), folded)

\* two sections of several lines each, the second pending at the end of the
\* input, both folded
C11_Witness ==
    /\ ppc = "returned"
    /\ Len(folded) = 2
    /\ \A k \in 1..2 : \E j \in 1..Len(folded[k][2]) : folded[k][2][j] = "\n"
    /\ DOMAIN result = {"description", "usage"}

====
